---- MODULE Spec2Model ----
(***************************************************************************)
(* The poll / dedupe / react control loop of the Discord auto reaction bot *)
(* (index.js, and its variant with a persisted cursor).                    *)
(*                                                                         *)
(* Message ids are the positions 1, 2, ... of the messages in the channel; *)
(* 0 stands for the empty string '' of an absent cursor.  A message's      *)
(* timestamp is its position as well (Discord ids are snowflakes, ordered  *)
(* by creation time).  Wall-clock delays are abstracted: a pending timeout *)
(* or an armed interval may fire at any later step.                        *)
(***************************************************************************)
EXTENDS Integers, Sequences, FiniteSets, Bags, TLC

\* ---------------------------------------------------------------- config
baseCheckInterval == 8000
intervalVariation == 4000
consecutiveErrorThreshold == 3
backoffMultiplier == 2
maxBackoffInterval == 300000
\* the second argument of getMessagesInChannel
fetchLimit == 5

\* ---------------------------------------------------------------- bounds
\* messages ever posted to the channel
MaxMessages == 4
\* environment faults (429 answers, uncaught exceptions) are injected only
\* while consecutiveErrors is below this
MaxErrors == 1
\* the same for the specification of a busy channel of human authors, where
\* the cursor can fall out of the fetched window
WindowMessages == 6
WindowErrors == 1
\* for the specification that exercises the backoff
BackoffMessages == 2
BackoffErrors == 9
\* and for the specification with process crashes and restarts
CrashMessages == 3
MaxRuns == 2
\* for the specification of the process life cycle (configuration, SIGINT)
LifecycleMessages == 3
LifecycleErrors == 1
\* for the specification of the cycle's error paths
ContainMessages == 3
ContainErrors == 1
ContainAttempts == 3

\* values of Math.floor(Math.random() * config.intervalVariation)
Variations == {0, intervalVariation - 1}
\* values of Math.random() * 100 (rounded down)
RandSamples == {0, 99}

NoId == 0
NoTimer == 0

VARIABLES
  channel,                \* the remote channel: messages, oldest first
  token,                  \* process.env.DISCORD_TOKEN is set
  channelId,              \* process.env.CHANNEL_ID is set
  discordClient,          \* new Discord(config.token) has been executed
  statsLogged,            \* the printStats of the SIGINT handler logged the summary
  reactionProbability,    \* config.reactionProbability
  persistent,             \* TRUE: the variant that mirrors the cursor to logFile
  logFile,                \* content of reaction-log.json
  phase,                  \* "starting" | "running" | "exited"
  exitCode,               \* process exit status once exited (-1: killed)
  runs,                   \* number of process starts so far
  lastProcessedMessageId, \* the cursor
  consecutiveErrors,
  currentInterval,
  activeCheckInterval,    \* handle of the interval the program holds, or NoTimer
  timers,                 \* the intervals alive in the event loop: [id, period]
  isProcessing,
  fetches,                \* getMessagesInChannel calls awaiting their answer
  timeouts,               \* bag of message ids with a reaction setTimeout pending
  calls,                  \* bag of message ids with an addReaction call in flight
  reactionCalls,          \* bag: addReaction invocations per message id, this run
  messagesReactedTo,
  messagesSkipped,
  lastStep,               \* "cycle" right after a fetch was answered, else "other"
  lastDelta,              \* ids triaged by the cycle that just ended, in triage order
  intervalAtZero,         \* currentInterval when consecutiveErrors was last 0
  lost,                   \* ids whose scheduled attempt was dropped by a crash
  loadedCursor            \* the cursor as loaded at the last process start

procVars == <<lastProcessedMessageId, consecutiveErrors, currentInterval,
              activeCheckInterval, timers, isProcessing, fetches, timeouts,
              calls, reactionCalls, messagesReactedTo, messagesSkipped>>
vars == <<channel, token, channelId, discordClient, statsLogged, reactionProbability, persistent, logFile, phase, exitCode,
          runs, procVars, lastStep, lastDelta, intervalAtZero, lost,
          loadedCursor>>

\* ---------------------------------------------------------------- helpers
Min(a, b) == IF a <= b THEN a ELSE b
Max(a, b) == IF a >= b THEN a ELSE b

RECURSIVE Reverse(_)
Reverse(s) == IF s = <<>> THEN <<>> ELSE Append(Reverse(Tail(s)), Head(s))

Ids(msgs) == [i \in DOMAIN msgs |-> msgs[i].id]

Range(s) == {s[i] : i \in DOMAIN s}

\* ---------------------------------------------------------------- backoff
\* The four variables the backoff functions touch, as one record.
Backoff == [consecutiveErrors |-> consecutiveErrors,
            currentInterval |-> currentInterval,
            activeCheckInterval |-> activeCheckInterval,
            timers |-> timers]

SetBackoff(b) ==
  /\ consecutiveErrors' = b.consecutiveErrors
  /\ currentInterval' = b.currentInterval
  /\ activeCheckInterval' = b.activeCheckInterval
  /\ timers' = b.timers

\* clearInterval(handle)
clearInterval(ts, handle) == {t \in ts : t.id # handle}

\* setInterval: a fresh handle (the smallest one not alive)
NewHandle(ts) == CHOOSE h \in 1..(Cardinality(ts) + 1) : \A t \in ts : t.id # h

\* faulty variant: the previous interval is left running
resetCheckInterval_NoClear(b, variation) ==
  LET h == NewHandle(b.timers)
  IN  [b EXCEPT !.activeCheckInterval = h,
                !.timers = b.timers \cup
                           {[id |-> h, period |-> b.currentInterval + variation]}]

resetCheckInterval(b, variation) ==
  LET cleared == IF b.activeCheckInterval # NoTimer
                 THEN clearInterval(b.timers, b.activeCheckInterval)
                 ELSE b.timers
      h == NewHandle(cleared)
  IN  [b EXCEPT !.activeCheckInterval = h,
                !.timers = cleared \cup
                           {[id |-> h, period |-> b.currentInterval + variation]}]

\* faulty variant: the doubled interval is not clamped
handleRateLimitBackoff_NoClamp(b, variation) ==
  LET n == b.consecutiveErrors + 1
      b1 == [b EXCEPT !.consecutiveErrors = n]
  IN  IF n >= consecutiveErrorThreshold
      THEN resetCheckInterval(
             [b1 EXCEPT !.currentInterval = b.currentInterval * backoffMultiplier],
             variation)
      ELSE b1

\* faulty variant: every failure doubles the interval
handleRateLimitBackoff_PerFailure(b, variation) ==
  LET n == b.consecutiveErrors + 1
      b1 == [b EXCEPT !.consecutiveErrors = n]
  IN  resetCheckInterval(
        [b1 EXCEPT !.currentInterval =
           Min(b.currentInterval * backoffMultiplier, maxBackoffInterval)],
        variation)

handleRateLimitBackoff(b, variation) ==
  LET n == b.consecutiveErrors + 1
      b1 == [b EXCEPT !.consecutiveErrors = n]
  IN  IF n >= consecutiveErrorThreshold
      THEN resetCheckInterval(
             [b1 EXCEPT !.currentInterval =
                Min(b.currentInterval * backoffMultiplier, maxBackoffInterval)],
             variation)
      ELSE b1

\* faulty variant: the shorter interval is stored but the timer is not re-armed
handleSuccessfulOperation_NoRearm(b, variation) ==
  IF b.consecutiveErrors > 0
  THEN LET b1 == [b EXCEPT !.consecutiveErrors = 0]
       IN  IF b.currentInterval > baseCheckInterval
           THEN [b1 EXCEPT !.currentInterval =
                   Max(b.currentInterval \div backoffMultiplier, baseCheckInterval)]
           ELSE b1
  ELSE b

\* currentInterval / backoffMultiplier is a float division in the source; the
\* quotient is rounded down here, which the clamp at baseCheckInterval hides
\* for every value the interval takes (8000 * 2^k, 300000 / 2^k >= 9375).
handleSuccessfulOperation(b, variation) ==
  IF b.consecutiveErrors > 0
  THEN LET b1 == [b EXCEPT !.consecutiveErrors = 0]
       IN  IF b.currentInterval > baseCheckInterval
           THEN resetCheckInterval(
                  [b1 EXCEPT !.currentInterval =
                     Max(b.currentInterval \div backoffMultiplier, baseCheckInterval)],
                  variation)
           ELSE b1
  ELSE b

\* ---------------------------------------------------------------- delta
\* messages.sort((a, b) => new Date(b.timestamp) - new Date(a.timestamp)):
\* a stable insertion sort, newest first
RECURSIVE InsertNewestFirst(_, _)
InsertNewestFirst(m, sorted) ==
  IF sorted = <<>> THEN <<m>>
  ELSE IF Head(sorted).timestamp >= m.timestamp
       THEN <<Head(sorted)>> \o InsertNewestFirst(m, Tail(sorted))
       ELSE <<m>> \o sorted

\* faulty variant: the batch is used in the order the API returned it
sortNewestFirst_Unsorted(msgs) == msgs

RECURSIVE sortNewestFirst(_)
sortNewestFirst(msgs) ==
  IF msgs = <<>> THEN <<>>
  ELSE LET n == Len(msgs)
       IN  InsertNewestFirst(msgs[n], sortNewestFirst(SubSeq(msgs, 1, n - 1)))

\* messages.findIndex(msg => msg.id === id), 1-based; 0 stands for -1
findIndex(messages, id) ==
  IF \E i \in DOMAIN messages : messages[i].id = id
  THEN CHOOSE i \in DOMAIN messages :
         /\ messages[i].id = id
         /\ \A j \in 1..(i - 1) : messages[j].id # id
  ELSE 0

\* faulty variant: the if-block is entered on every non-empty batch
latestIsNew_Always(latestMessage, cursor) == TRUE

\* latestMessage.id !== lastProcessedMessageId
latestIsNew(latestMessage, cursor) == latestMessage.id # cursor

\* variant: the slice reversed to oldest first
messagesToProcess_Chronological(messages, lastProcessedIndex) ==
  IF lastProcessedIndex = 0
  THEN <<messages[1]>>
  ELSE Reverse(SubSeq(messages, 1, lastProcessedIndex - 1))

\* faulty variant: the slice includes the cursor message
messagesToProcess_Inclusive(messages, lastProcessedIndex) ==
  IF lastProcessedIndex = 0
  THEN <<messages[1]>>
  ELSE SubSeq(messages, 1, lastProcessedIndex)

\* faulty variant: the whole batch when the cursor is not found
messagesToProcess_WholeBatch(messages, lastProcessedIndex) ==
  IF lastProcessedIndex = 0
  THEN messages
  ELSE SubSeq(messages, 1, lastProcessedIndex - 1)

\* [latestMessage] when the cursor is not in the batch, else
\* messages.slice(0, lastProcessedIndex)
messagesToProcess(messages, lastProcessedIndex) ==
  IF lastProcessedIndex = 0
  THEN <<messages[1]>>
  ELSE SubSeq(messages, 1, lastProcessedIndex - 1)

\* faulty variant: the author is not looked at
authoredByBot_Never(message) == FALSE

\* message.author && message.author.bot
authoredByBot(message) == message.bot

\* Math.random() * 100 <= config.reactionProbability
shouldReactToMessage(sample, probability) == sample <= probability

\* faulty variant: the cursor is not advanced
advancedCursor_Stuck(latestMessage, cursor) == cursor

\* lastProcessedMessageId = latestMessage.id
advancedCursor(latestMessage, cursor) == latestMessage.id

\* ---------------------------------------------------------------- cursor file
NoFile == [kind |-> "absent", lastMessageId |-> NoId]
CorruptFile == [kind |-> "corrupt", lastMessageId |-> NoId]
WriteOutcomes == {"written", "unchanged", "truncated"}

\* the startup load: logData.lastMessageId || '' when the file exists and
\* parses; '' when it is missing or JSON.parse throws
loadCursor(file) ==
  IF file.kind = "record" THEN file.lastMessageId ELSE NoId

\* faulty variant: the record is written before the cursor is advanced
saveLastProcessedMessageId_Stale(file, messageId, outcome) ==
  CASE outcome = "written" -> [kind |-> "record",
                               lastMessageId |-> lastProcessedMessageId]
    [] outcome = "unchanged" -> file
    [] OTHER -> CorruptFile

\* fs.writeFileSync inside try/catch: the write may fail before the file is
\* opened (unchanged) or after it was truncated
saveLastProcessedMessageId(file, messageId, outcome) ==
  CASE outcome = "written" -> [kind |-> "record", lastMessageId |-> messageId]
    [] outcome = "unchanged" -> file
    [] OTHER -> CorruptFile

\* ---------------------------------------------------------------- remote
\* discordClient.getMessagesInChannel(channelId, limit): the newest `limit`
\* messages; the order of the answer is not relied upon by the caller
getMessagesInChannel(ch, limit, order) ==
  LET n == Len(ch)
      k == Min(n, limit)
      oldestFirst == SubSeq(ch, n - k + 1, n)
  IN  IF order = "newest-first" THEN Reverse(oldestFirst) ELSE oldestFirst

Orders == {"newest-first", "oldest-first"}

\* ---------------------------------------------------------------- triage
\* message.content of a message that has none
NullContent == "null"

\* calculateHumanLikeDelay(message.content): content.length of null throws
\* (the default '' only replaces undefined)
delayThrows(message) == message.content = NullContent

\* the positions of the loop that get as far as calculateHumanLikeDelay
PassedAt(todo, samples, probability) ==
  {i \in DOMAIN todo : /\ ~authoredByBot(todo[i])
                       /\ shouldReactToMessage(samples[i], probability)}

\* the position at which the loop throws, beyond the end if it does not
ThrownAt(todo, samples, probability) ==
  LET throwing == {i \in PassedAt(todo, samples, probability) : delayThrows(todo[i])}
  IN  IF throwing = {} THEN Len(todo) + 1
      ELSE CHOOSE i \in throwing : \A j \in throwing : i <= j

\* the for loop over messagesToProcess: positions whose message gets a
\* setTimeout, and positions counted as randomly skipped
ScheduledAt(todo, samples, probability) ==
  {i \in PassedAt(todo, samples, probability) :
     i < ThrownAt(todo, samples, probability)}

SkippedAt(todo, samples, probability) ==
  {i \in DOMAIN todo : /\ ~authoredByBot(todo[i])
                       /\ ~shouldReactToMessage(samples[i], probability)
                       /\ i < ThrownAt(todo, samples, probability)}

\* the outcomes of the loop over all draws of Math.random()
Triages(todo, probability) ==
  {[scheduled |-> {todo[i].id : i \in ScheduledAt(todo, samples, probability)},
    skipped |-> Cardinality(SkippedAt(todo, samples, probability)),
    thrown |-> ThrownAt(todo, samples, probability) <= Len(todo)] :
     samples \in [DOMAIN todo -> RandSamples]}

\* faulty variant: the flag is cleared on the normal paths only
busyAfterCycle_NoFinally(thrown) == thrown

\* finally { isProcessing = false; }
busyAfterCycle(thrown) == FALSE

\* faulty variant: no guard against overlapping checks
overlapGuard_Off(busy) == FALSE

\* if (isProcessing) return;
overlapGuard(busy) == busy

\* ---------------------------------------------------------------- Init
EmptyProc ==
  /\ consecutiveErrors = 0
  /\ currentInterval = baseCheckInterval
  /\ activeCheckInterval = NoTimer
  /\ timers = {}
  /\ isProcessing = FALSE
  /\ fetches = 0
  /\ timeouts = EmptyBag
  /\ calls = EmptyBag
  /\ reactionCalls = EmptyBag
  /\ messagesReactedTo = 0
  /\ messagesSkipped = 0

\* faulty variant: only the token is required
missingConfiguration_TokenOnly(tok, ch) == ~tok

\* if (!config.token || !config.channelId)
missingConfiguration(tok, ch) == ~tok \/ ~ch

\* the top of the script: process.exit(1) on a missing setting, else
\* new Discord(config.token) and the banner
TopLevel ==
  IF missingConfiguration(token, channelId)
  THEN phase = "exited" /\ exitCode = 1 /\ discordClient = FALSE
  ELSE phase = "starting" /\ exitCode = 0 /\ discordClient = TRUE

InitConfigured(tokens, channelIds, variants, probabilities, files) ==
  /\ channel = <<>>
  /\ token \in tokens
  /\ channelId \in channelIds
  /\ TopLevel
  /\ statsLogged = FALSE
  /\ reactionProbability \in probabilities
  /\ persistent \in variants
  /\ logFile \in (IF persistent THEN files ELSE {NoFile})
  /\ runs = 1
  /\ lastProcessedMessageId = (IF persistent THEN loadCursor(logFile) ELSE NoId)
  /\ EmptyProc
  /\ lastStep = "other"
  /\ lastDelta = <<>>
  /\ intervalAtZero = baseCheckInterval
  /\ lost = {}
  /\ loadedCursor = NoId

\* DISCORD_TOKEN and CHANNEL_ID are set
InitWith(variants, probabilities, files) ==
  InitConfigured({TRUE}, {TRUE}, variants, probabilities, files)

Init == InitWith({FALSE}, {85}, {NoFile})

\* ---------------------------------------------------------------- actions
Frame == UNCHANGED <<token, channelId, discordClient, statsLogged,
                     reactionProbability, persistent, runs, exitCode, lost,
                     loadedCursor>>

\* every handler but the answered fetch
NotACycle == lastStep' = "other" /\ lastDelta' = <<>>

KeepBackoff ==
  UNCHANGED <<consecutiveErrors, currentInterval, activeCheckInterval, timers,
              intervalAtZero>>

ApplyBackoff(b) ==
  /\ SetBackoff(b)
  /\ intervalAtZero' = IF b.consecutiveErrors = 0 THEN b.currentInterval
                       ELSE intervalAtZero

\* faulty variant: every rejection is taken for a rate limit
isRateLimit_Any(status) == TRUE

\* error.response && error.response.status === 429 (status 0: no response)
isRateLimit(status) == status = 429

\* the catch blocks of the fetch and of addReaction
reportError(b, status, variation) ==
  IF isRateLimit(status) THEN handleRateLimitBackoff(b, variation) ELSE b

\* the statuses of a rejection that is not a rate limit
OtherStatuses == {0, 500}

\* the results of a backoff function over all draws of the variation
Rejections(statuses) ==
  {reportError(Backoff, status, v) : status \in statuses, v \in Variations}
Failures == {handleRateLimitBackoff(Backoff, v) : v \in Variations}
Successes == {handleSuccessfulOperation(Backoff, v) : v \in Variations}

\* a message is posted (the environment)
Post(maxMessages, authors, contents) ==
  /\ Len(channel) < maxMessages
  /\ \E b \in authors, c \in contents :
       channel' = Append(channel, [id |-> Len(channel) + 1,
                                   timestamp |-> Len(channel) + 1,
                                   bot |-> b,
                                   content |-> c])
  /\ NotACycle
  /\ UNCHANGED <<logFile, phase, procVars, intervalAtZero>>
  /\ Frame

\* a user or a bot posts a text
PostMessage(maxMessages, authors) == Post(maxMessages, authors, {"text"})

\* a user posts a message whose content is null
PostWithoutContent(maxMessages) == Post(maxMessages, {FALSE}, {NullContent})

\* checkAndReactToMessages up to its await
EnterCheck ==
  IF overlapGuard(isProcessing)
  THEN UNCHANGED <<isProcessing, fetches>>
  ELSE /\ isProcessing' = TRUE
       /\ fetches' = fetches + 1

\* setTimeout(() => { checkAndReactToMessages(); resetCheckInterval(); }, 2000)
StartupTimeout ==
  /\ phase = "starting"
  /\ phase' = "running"
  /\ EnterCheck
  /\ \E b \in {resetCheckInterval(Backoff, v) : v \in Variations} : ApplyBackoff(b)
  /\ NotACycle
  /\ UNCHANGED <<channel, logFile, lastProcessedMessageId, timeouts, calls,
                 reactionCalls, messagesReactedTo, messagesSkipped>>
  /\ Frame

\* an armed interval fires (the startup delay of 2 s is shorter than any
\* period, so none fires before the startup timeout)
IntervalFires ==
  /\ phase = "running"
  /\ timers # {}
  /\ EnterCheck
  /\ NotACycle
  /\ KeepBackoff
  /\ UNCHANGED <<channel, logFile, phase, lastProcessedMessageId, timeouts,
                 calls, reactionCalls, messagesReactedTo, messagesSkipped>>
  /\ Frame

\* getMessagesInChannel rejects with status 429: the catch block, then finally
FetchRateLimited(maxErrors) ==
  /\ phase = "running"
  /\ fetches > 0
  /\ consecutiveErrors < maxErrors
  /\ fetches' = fetches - 1
  /\ isProcessing' = busyAfterCycle(TRUE)
  /\ \E b \in Rejections({429}) : ApplyBackoff(b)
  /\ NotACycle
  /\ UNCHANGED <<channel, logFile, phase, lastProcessedMessageId, timeouts,
                 calls, reactionCalls, messagesReactedTo, messagesSkipped>>
  /\ Frame

\* getMessagesInChannel rejects otherwise
FetchFails ==
  /\ phase = "running"
  /\ fetches > 0
  /\ fetches' = fetches - 1
  /\ isProcessing' = busyAfterCycle(TRUE)
  /\ \E b \in Rejections(OtherStatuses) : ApplyBackoff(b)
  /\ NotACycle
  /\ UNCHANGED <<channel, logFile, phase, lastProcessedMessageId, timeouts,
                 calls, reactionCalls, messagesReactedTo, messagesSkipped>>
  /\ Frame

\* getMessagesInChannel resolves: the rest of checkAndReactToMessages
FetchReturns ==
  /\ phase = "running"
  /\ fetches > 0
  /\ fetches' = fetches - 1
  /\ lastStep' = "cycle"
  /\ \E messages \in {sortNewestFirst(getMessagesInChannel(channel, fetchLimit, o)) :
                        o \in Orders} :
       IF Len(messages) = 0 \/ ~latestIsNew(messages[1], lastProcessedMessageId)
       THEN /\ lastDelta' = <<>>
            /\ isProcessing' = busyAfterCycle(FALSE)
            /\ KeepBackoff
            /\ UNCHANGED <<logFile, lastProcessedMessageId, timeouts,
                           messagesSkipped>>
       ELSE LET latestMessage == messages[1]
                lastProcessedIndex == findIndex(messages, lastProcessedMessageId)
                todo == messagesToProcess(messages, lastProcessedIndex)
                cursor == advancedCursor(latestMessage, lastProcessedMessageId)
            IN  /\ lastDelta' = Ids(todo)
                /\ \E t \in Triages(todo, reactionProbability) :
                     /\ timeouts' = timeouts (+) SetToBag(t.scheduled)
                     /\ messagesSkipped' = messagesSkipped + t.skipped
                     /\ isProcessing' = busyAfterCycle(t.thrown)
                     /\ IF t.thrown
                        THEN \* the catch block: a TypeError has no response
                             /\ \E b \in Rejections({0}) : ApplyBackoff(b)
                             /\ UNCHANGED <<logFile, lastProcessedMessageId>>
                        ELSE /\ lastProcessedMessageId' = cursor
                             /\ IF persistent
                                THEN \E outcome \in WriteOutcomes :
                                       logFile' = saveLastProcessedMessageId(
                                                    logFile, cursor, outcome)
                                ELSE logFile' = logFile
                             /\ \E b \in Successes : ApplyBackoff(b)
  /\ UNCHANGED <<channel, phase, calls, reactionCalls, messagesReactedTo>>
  /\ Frame

\* a reaction setTimeout fires: addReaction is called
ReactionTimeoutFires ==
  /\ phase = "running"
  /\ \E id \in BagToSet(timeouts) :
       /\ timeouts' = timeouts (-) SetToBag({id})
       /\ calls' = calls (+) SetToBag({id})
       /\ reactionCalls' = reactionCalls (+) SetToBag({id})
  /\ NotACycle
  /\ KeepBackoff
  /\ UNCHANGED <<channel, logFile, phase, lastProcessedMessageId, isProcessing,
                 fetches, messagesReactedTo, messagesSkipped>>
  /\ Frame

\* addReaction resolves
ReactionSucceeds ==
  /\ phase = "running"
  /\ \E id \in BagToSet(calls) : calls' = calls (-) SetToBag({id})
  /\ messagesReactedTo' = messagesReactedTo + 1
  /\ NotACycle
  /\ KeepBackoff
  /\ UNCHANGED <<channel, logFile, phase, lastProcessedMessageId, isProcessing,
                 fetches, timeouts, reactionCalls, messagesSkipped>>
  /\ Frame

\* addReaction rejects with status 429
ReactionRateLimited(maxErrors) ==
  /\ phase = "running"
  /\ consecutiveErrors < maxErrors
  /\ \E id \in BagToSet(calls) : calls' = calls (-) SetToBag({id})
  /\ \E b \in Rejections({429}) : ApplyBackoff(b)
  /\ NotACycle
  /\ UNCHANGED <<channel, logFile, phase, lastProcessedMessageId, isProcessing,
                 fetches, timeouts, reactionCalls, messagesReactedTo,
                 messagesSkipped>>
  /\ Frame

\* addReaction rejects otherwise
ReactionFails ==
  /\ phase = "running"
  /\ \E id \in BagToSet(calls) : calls' = calls (-) SetToBag({id})
  /\ \E b \in Rejections(OtherStatuses) : ApplyBackoff(b)
  /\ NotACycle
  /\ UNCHANGED <<channel, logFile, phase, lastProcessedMessageId, isProcessing,
                 fetches, timeouts, reactionCalls, messagesReactedTo,
                 messagesSkipped>>
  /\ Frame

\* process.on('uncaughtException')
UncaughtException(maxErrors) ==
  /\ phase \in {"starting", "running"}
  /\ consecutiveErrors < maxErrors
  /\ \E b \in Failures : ApplyBackoff(b)
  /\ NotACycle
  /\ UNCHANGED <<channel, logFile, phase, lastProcessedMessageId, isProcessing,
                 fetches, timeouts, calls, reactionCalls, messagesReactedTo,
                 messagesSkipped>>
  /\ Frame

\* printStats: whether it logs the summary
printStats(reacted, skipped) == reacted % 5 = 0 \/ (reacted + skipped) % 20 = 0

\* process.on('SIGINT'): the process ends, so no handler runs afterwards
Sigint ==
  /\ phase \in {"starting", "running"}
  /\ timers' = (IF activeCheckInterval # NoTimer
                THEN clearInterval(timers, activeCheckInterval)
                ELSE timers)
  /\ statsLogged' = printStats(messagesReactedTo, messagesSkipped)
  /\ phase' = "exited"
  /\ exitCode' = 0
  /\ NotACycle
  /\ UNCHANGED <<channel, token, channelId, discordClient, reactionProbability,
                 persistent, logFile, runs, lost, loadedCursor, intervalAtZero,
                 lastProcessedMessageId, consecutiveErrors, currentInterval,
                 activeCheckInterval, isProcessing, fetches, timeouts, calls,
                 reactionCalls, messagesReactedTo, messagesSkipped>>

\* the process is killed: its memory and its event loop are gone
Crash(maxRuns) ==
  /\ phase \in {"starting", "running"}
  /\ runs < maxRuns
  /\ phase' = "exited"
  /\ exitCode' = 137
  /\ lost' = lost \cup BagToSet(timeouts)
  /\ lastProcessedMessageId' = NoId
  /\ consecutiveErrors' = 0
  /\ currentInterval' = baseCheckInterval
  /\ activeCheckInterval' = NoTimer
  /\ timers' = {}
  /\ isProcessing' = FALSE
  /\ fetches' = 0
  /\ timeouts' = EmptyBag
  /\ calls' = EmptyBag
  /\ reactionCalls' = EmptyBag
  /\ messagesReactedTo' = 0
  /\ messagesSkipped' = 0
  /\ NotACycle
  /\ UNCHANGED <<channel, token, channelId, discordClient, statsLogged,
                 reactionProbability, persistent, logFile, runs,
                 intervalAtZero, loadedCursor>>

\* the script is started again: the state variables are initialised and, in
\* the persistent variant, the cursor is loaded from the log file
Restart ==
  /\ phase = "exited"
  /\ exitCode = 137
  /\ phase' = "starting"
  /\ exitCode' = 0
  /\ runs' = runs + 1
  /\ lastProcessedMessageId' = (IF persistent THEN loadCursor(logFile) ELSE NoId)
  /\ loadedCursor' = (IF persistent THEN loadCursor(logFile) ELSE NoId)
  /\ intervalAtZero' = baseCheckInterval
  /\ NotACycle
  /\ UNCHANGED <<channel, token, channelId, discordClient, statsLogged,
                 reactionProbability, persistent, logFile, lost,
                 consecutiveErrors, currentInterval, activeCheckInterval, timers,
                 isProcessing, fetches, timeouts, calls, reactionCalls,
                 messagesReactedTo, messagesSkipped>>

\* ---------------------------------------------------------------- specifications
Authors == BOOLEAN
Humans == {FALSE}

\* the memory-only program in a channel of users and bots
Next ==
  \/ PostMessage(MaxMessages, Authors)
  \/ StartupTimeout
  \/ IntervalFires
  \/ FetchRateLimited(MaxErrors)
  \/ FetchFails
  \/ FetchReturns
  \/ ReactionTimeoutFires
  \/ ReactionSucceeds
  \/ ReactionRateLimited(MaxErrors)
  \/ ReactionFails
  \/ UncaughtException(MaxErrors)

Spec == Init /\ [][Next]_vars

\* the memory-only program, reacting to every message of a busy channel of
\* users
InitWindow == InitWith({FALSE}, {100}, {NoFile})

NextWindow ==
  \/ PostMessage(WindowMessages, Humans)
  \/ StartupTimeout
  \/ IntervalFires
  \/ FetchFails
  \/ FetchReturns
  \/ ReactionTimeoutFires
  \/ ReactionSucceeds
  \/ ReactionRateLimited(WindowErrors)
  \/ ReactionFails

SpecWindow == InitWindow /\ [][NextWindow]_vars

\* the memory-only program under a long burst of failures
NextBackoff ==
  \/ PostMessage(BackoffMessages, Humans)
  \/ StartupTimeout
  \/ IntervalFires
  \/ FetchRateLimited(BackoffErrors)
  \/ FetchFails
  \/ FetchReturns
  \/ ReactionTimeoutFires
  \/ ReactionSucceeds
  \/ ReactionRateLimited(BackoffErrors)
  \/ ReactionFails
  \/ UncaughtException(BackoffErrors)

SpecBackoff == Init /\ [][NextBackoff]_vars

\* both variants, killed and started again
InitCrash == InitWith(BOOLEAN, {85}, {NoFile, CorruptFile})

NextCrash ==
  \/ PostMessage(CrashMessages, Humans)
  \/ StartupTimeout
  \/ IntervalFires
  \/ FetchFails
  \/ FetchReturns
  \/ ReactionTimeoutFires
  \/ ReactionSucceeds
  \/ ReactionFails
  \/ Crash(MaxRuns)
  \/ Restart

SpecCrash == InitCrash /\ [][NextCrash]_vars

\* the memory-only program from its configuration to the interrupt signal
InitLifecycle == InitConfigured(BOOLEAN, BOOLEAN, {FALSE}, {85}, {NoFile})

NextLifecycle ==
  \/ PostMessage(LifecycleMessages, Authors)
  \/ StartupTimeout
  \/ IntervalFires
  \/ FetchRateLimited(LifecycleErrors)
  \/ FetchFails
  \/ FetchReturns
  \/ ReactionTimeoutFires
  \/ ReactionSucceeds
  \/ ReactionRateLimited(LifecycleErrors)
  \/ ReactionFails
  \/ UncaughtException(LifecycleErrors)
  \/ Sigint

SpecLifecycle == InitLifecycle /\ [][NextLifecycle]_vars

\* the memory-only program, reacting to every message, in a channel where a
\* message may have no content; the attempts of a run are capped
NextContain ==
  /\ \/ PostMessage(ContainMessages, Humans)
     \/ PostWithoutContent(ContainMessages)
     \/ StartupTimeout
     \/ IntervalFires
     \/ FetchRateLimited(ContainErrors)
     \/ FetchFails
     \/ FetchReturns
     \/ ReactionTimeoutFires
     \/ ReactionSucceeds
     \/ ReactionFails
  /\ BagCardinality(timeouts') + BagCardinality(reactionCalls') <= ContainAttempts

SpecContain == InitWindow /\ [][NextContain]_vars

\* ---------------------------------------------------------------- claims
\* The batch a fetch answers with, stated from the channel alone: message
\* ids are channel positions, so the batch holds the ids above Len - limit,
\* and the ids newer than a cursor c are those above c.
InBatch(id) == id >= 1 /\ id <= Len(channel) /\ id > Len(channel) - fetchLimit

CursorFound == InBatch(lastProcessedMessageId) /\ lastProcessedMessageId < Len(channel)

CursorUnknown == channel # <<>> /\ ~InBatch(lastProcessedMessageId)

NewerThanCursor == {id \in 1..Len(channel) : id > lastProcessedMessageId}

\* C1 as stated: when the cursor is found in the batch, the cycle triages the
\* new messages oldest first (cursor m3 of [m5..m1] gives [m4, m5]).
C1_ChronologicalOrder ==
  [][(lastStep' = "cycle" /\ CursorFound) =>
       lastDelta' = [i \in 1..(Len(channel) - lastProcessedMessageId) |->
                       lastProcessedMessageId + i]]_vars

\* C1 amended: when the cursor is found in the batch, the cycle triages the
\* new messages newest first (cursor m3 of [m5..m1] gives [m5, m4]).
C1_NewestFirstOrder ==
  [][(lastStep' = "cycle" /\ CursorFound) =>
       lastDelta' = [i \in 1..(Len(channel) - lastProcessedMessageId) |->
                       Len(channel) + 1 - i]]_vars

\* the cycle of the example has just ended: batch [m5..m1], cursor was m3
C1_Witness ==
  /\ lastStep = "cycle"
  /\ Len(channel) = 5
  /\ lastDelta = <<5, 4>>

\* C2: when the cursor is found in the batch behind the newest message, the
\* set of triaged messages is exactly the set of messages newer than the
\* cursor.
C2_DeltaMembership ==
  [][(lastStep' = "cycle" /\ CursorFound) =>
       Range(lastDelta') = NewerThanCursor]_vars

\* a cycle has just triaged three new messages behind a found cursor
C2_Witness ==
  /\ lastStep = "cycle"
  /\ Cardinality(Range(lastDelta)) = 3
  /\ lastProcessedMessageId = Len(channel)

\* C3: when the cursor is absent, or set but not in the non-empty batch, the
\* cycle triages exactly the newest message.
C3_UnknownCursor ==
  [][(lastStep' = "cycle" /\ CursorUnknown) =>
       lastDelta' = <<Len(channel)>>]_vars

\* a cycle has just triaged m6 alone although m2..m5 were never triaged: the
\* cursor was m1, which had fallen out of the batch [m6..m2]
C3_Witness ==
  /\ lastStep = "cycle"
  /\ Len(channel) = 6
  /\ lastDelta = <<6>>
  /\ messagesSkipped = 0
  /\ BagToSet(timeouts (+) reactionCalls) = {1, 6}

\* C4: a cycle whose batch is empty, or whose newest message is the cursor,
\* schedules no reaction attempt and leaves the cursor, consecutiveErrors,
\* currentInterval and the armed timer as they were.
NothingNew == channel = <<>> \/ lastProcessedMessageId = Len(channel)

C4_NoOpCycle ==
  [][(lastStep' = "cycle" /\ NothingNew) =>
       UNCHANGED <<lastProcessedMessageId, consecutiveErrors, currentInterval,
                   activeCheckInterval, timers, timeouts, calls, reactionCalls,
                   logFile>>]_vars

\* a cycle has just found nothing new while an error was counted: the
\* counter was not reset
C4_Witness ==
  /\ lastStep = "cycle"
  /\ channel # <<>>
  /\ lastProcessedMessageId = Len(channel)
  /\ lastDelta = <<>>
  /\ consecutiveErrors > 0

C6_ReentrancyGuard ==
  /\ fetches <= 1
  /\ isProcessing <=> (fetches = 1)
  /\ isProcessing => ~ENABLED <<IntervalFires>>_procVars

\* a timer can fire while a cycle is in flight and reaction callbacks are
\* pending
C6_Witness ==
  /\ isProcessing
  /\ ENABLED IntervalFires
  /\ timeouts # EmptyBag
  /\ calls # EmptyBag

\* C7: the interval stays within [baseCheckInterval, maxBackoffInterval] and
\* the error counter is never negative.
C7_BackoffBounds ==
  /\ baseCheckInterval <= currentInterval
  /\ currentInterval <= maxBackoffInterval
  /\ consecutiveErrors >= 0

\* failures went on after the interval had reached the maximum
C7_Witness ==
  /\ currentInterval = maxBackoffInterval
  /\ consecutiveErrors = BackoffErrors

\* C8: counting from consecutiveErrors = 0, the first and second failure
\* leave the interval as it was and the third doubles it once; a success
\* reported then halves it, clamped at baseCheckInterval, which gives back
\* the interval the failures started from.
C8_ThresholdScenario ==
  /\ [](/\ consecutiveErrors \in 1..(consecutiveErrorThreshold - 1)
             => currentInterval = intervalAtZero
        /\ consecutiveErrors = consecutiveErrorThreshold
             => currentInterval = backoffMultiplier * intervalAtZero)
  /\ [][(consecutiveErrors = consecutiveErrorThreshold /\ consecutiveErrors' = 0) =>
          /\ currentInterval' =
               Max(currentInterval \div backoffMultiplier, baseCheckInterval)
          /\ currentInterval' = intervalAtZero]_vars

\* the third failure in a row has doubled the base interval
C8_Witness ==
  /\ consecutiveErrors = consecutiveErrorThreshold
  /\ intervalAtZero = baseCheckInterval
  /\ currentInterval = backoffMultiplier * baseCheckInterval

\* C9: no reaction attempt is ever scheduled or made for a message whose
\* author is a bot.
C9_BotExclusion ==
  \A id \in BagToSet(timeouts (+) calls (+) reactionCalls) : ~channel[id].bot

\* a cycle has just triaged a bot's message next to a user's message, for
\* which an attempt is scheduled
C9_Witness ==
  /\ lastStep = "cycle"
  /\ \E i, j \in Range(lastDelta) :
       /\ channel[i].bot
       /\ j \in BagToSet(timeouts)

Attempted == BagToSet(timeouts) \cup BagToSet(calls) \cup BagToSet(reactionCalls)

\* a message newer than an attempted one was either triaged in the same cycle
\* or posted after that cycle, while the bot was running
PostedWhileRunning(id) == \E older \in Attempted : older < id

\* C11: with REACTION_PROBABILITY = 100 every message a user posts while the
\* bot is running gets an addReaction attempt, however many arrive between two
\* polls. The cursor never returns to a message it has passed, so the claim
\* requires every such message at or before the cursor to have an attempt
\* scheduled or made.
C11_FullCoverage ==
  reactionProbability = 100 =>
    \A id \in 1..Len(channel) :
      (/\ ~channel[id].bot
       /\ PostedWhileRunning(id)
       /\ id <= lastProcessedMessageId) => id \in Attempted

\* ---------------------------------------------------------------- C12
\* C12: after the interrupt signal, whatever the counters were, the repeating
\* timer is cancelled, the final statistics summary has been logged, the exit
\* status is 0 and no poll cycle can start.
C12_Shutdown ==
  (phase = "exited" /\ ~missingConfiguration(token, channelId)) =>
    /\ exitCode = 0
    /\ timers = {}
    /\ statsLogged
    /\ ~ENABLED <<StartupTimeout \/ IntervalFires \/ FetchReturns>>_procVars

\* ---------------------------------------------------------------- C13
\* C13: when the token or the channel id is missing, the process has exited
\* with a non-zero status, the client was never created, no timer is armed
\* and no fetch or reaction call has been or can be made.
C13_ConfigurationError ==
  (~token \/ ~channelId) =>
    /\ phase = "exited"
    /\ exitCode # 0
    /\ ~discordClient
    /\ timers = {}
    /\ activeCheckInterval = NoTimer
    /\ fetches = 0
    /\ ~isProcessing
    /\ Attempted = {}
    /\ ~ENABLED <<NextLifecycle>>_procVars

\* the channel id is missing and the channel has gone on without the bot
C13_Witness ==
  /\ token
  /\ ~channelId
  /\ exitCode = 1
  /\ Len(channel) = LifecycleMessages

\* ---------------------------------------------------------------- C14
\* a delayed addReaction attempt resolves
ReactionSuccessStep == messagesReactedTo' = messagesReactedTo + 1

\* C14: whenever a delayed addReaction attempt succeeds, the reacted counter
\* is incremented and the success is reported to the backoff controller:
\* consecutiveErrors becomes 0 and an interval above the base shrinks.
C14_ReactionSuccessReported ==
  [][ReactionSuccessStep =>
       /\ consecutiveErrors' = 0
       /\ currentInterval > baseCheckInterval =>
            currentInterval' = Max(currentInterval \div backoffMultiplier,
                                   baseCheckInterval)]_vars

\* ---------------------------------------------------------------- C15
\* a remote call rejects with status 429, or an exception is uncaught
RateLimitedStep ==
  \/ FetchRateLimited(BackoffErrors)
  \/ ReactionRateLimited(BackoffErrors)
  \/ UncaughtException(BackoffErrors)

\* a remote call rejects with another status or without a response
OtherFailureStep == FetchFails \/ ReactionFails

\* C15 as stated: every failed remote call and every unexpected exception,
\* rate limit or not, increments consecutiveErrors exactly once.
C15_SingleFailurePath ==
  [][(RateLimitedStep \/ OtherFailureStep) =>
       consecutiveErrors' = consecutiveErrors + 1]_vars

\* C15 as the program behaves: a fetch or addReaction rejected with status 429
\* and an uncaught exception increment consecutiveErrors exactly once; a fetch
\* or addReaction that fails otherwise is only logged and changes neither
\* consecutiveErrors nor the interval nor the timer.
C15_RateLimitFailurePath ==
  [][/\ RateLimitedStep => consecutiveErrors' = consecutiveErrors + 1
     /\ OtherFailureStep =>
          UNCHANGED <<consecutiveErrors, currentInterval, activeCheckInterval,
                      timers>>]_vars

\* the only attempt of the run failed and left no trace in the error counter
C15_Witness ==
  /\ phase = "running"
  /\ Len(channel) = 1
  /\ CopiesIn(1, reactionCalls) = 1
  /\ calls = EmptyBag
  /\ messagesReactedTo = 0
  /\ consecutiveErrors = 0

\* ---------------------------------------------------------------- C16
\* a cycle found new messages and reported its success
SuccessStep == lastStep' = "cycle" /\ lastDelta' # <<>>

\* C16: every success reported while currentInterval is above the base
\* divides it by the multiplier, clamped at the base, and re-arms the timer;
\* repeated successes therefore bring the interval back to the base.
C16_RecoveryToBaseline ==
  [][(SuccessStep /\ currentInterval > baseCheckInterval) =>
       /\ currentInterval' = Max(currentInterval \div backoffMultiplier,
                                 baseCheckInterval)
       /\ timers' # {}
       /\ \A t \in timers' :
            /\ t.period >= currentInterval'
            /\ t.period < currentInterval' + intervalVariation]_vars

\* ---------------------------------------------------------------- C17
\* a failure is reported to the backoff controller
FailureStep == consecutiveErrors' = consecutiveErrors + 1

\* the interval a success step leaves when no error is on record
IntervalAfterCleanSuccess ==
  handleSuccessfulOperation([Backoff EXCEPT !.consecutiveErrors = 0], 0).currentInterval

\* the interval grows only with sustained failures, shrinks only with a
\* success above the base, and a failure below the threshold leaves the
\* interval and the timer alone
IntervalTracksPressure ==
  /\ currentInterval' > currentInterval =>
       FailureStep /\ consecutiveErrors' >= consecutiveErrorThreshold
  /\ currentInterval' < currentInterval =>
       SuccessStep /\ currentInterval > baseCheckInterval
  /\ (FailureStep /\ consecutiveErrors' < consecutiveErrorThreshold) =>
       UNCHANGED <<currentInterval, activeCheckInterval, timers>>

\* C17: currentInterval increases only in a failure step that brings
\* consecutiveErrors to the threshold or beyond and decreases only in a
\* success step taken above the base; a failure below the threshold changes
\* neither the interval nor the timer, and has no effect on a later interval:
\* the next success leaves the interval it would leave with no error on
\* record.
C17_ErrorPressureOnly ==
  [][/\ IntervalTracksPressure
     /\ (SuccessStep /\ consecutiveErrors \in 1..(consecutiveErrorThreshold - 1)) =>
          currentInterval' = IntervalAfterCleanSuccess]_vars

\* ---------------------------------------------------------------- C18
\* the messages of the last delta that have a pending attempt
ScheduledOf(delta, pending) == {id \in Range(delta) : CopiesIn(id, pending) > 0}

\* C18: a cycle that finds new messages moves the cursor in its one step to
\* the newest message of the batch, with every message of the delta a bot's,
\* skipped or scheduled by then; no other step changes the cursor.
C18_CursorAdvance ==
  [][/\ (lastStep' = "cycle" /\ ~NothingNew) =>
          /\ lastProcessedMessageId' = Len(channel)
          /\ lastDelta' # <<>>
     /\ lastProcessedMessageId' # lastProcessedMessageId =>
          /\ SuccessStep
          /\ lastProcessedMessageId' = Len(channel)
          /\ timeouts' = timeouts (+) SetToBag(ScheduledOf(lastDelta', timeouts'))
          /\ Len(lastDelta') =
               Cardinality({id \in Range(lastDelta') : channel[id].bot})
               + Cardinality(ScheduledOf(lastDelta', timeouts'))
               + (messagesSkipped' - messagesSkipped)]_vars

\* a cycle has triaged a bot's message, a skipped one and a scheduled one and
\* moved the cursor past all three
C18_Witness ==
  /\ lastStep = "cycle"
  /\ Len(lastDelta) = 3
  /\ lastProcessedMessageId = lastDelta[1]
  /\ \E id \in Range(lastDelta) : channel[id].bot
  /\ \E id \in Range(lastDelta) : ~channel[id].bot /\ id \notin Attempted
  /\ \E id \in Range(lastDelta) : CopiesIn(id, timeouts) = 1

\* ---------------------------------------------------------------- C19
\* C19: every change of the cursor moves it to a strictly newer message of
\* the channel; no poll cycle sets it back to an older one.
C19_CursorMonotonic ==
  [][lastProcessedMessageId' # lastProcessedMessageId =>
       /\ lastProcessedMessageId' > lastProcessedMessageId
       /\ lastProcessedMessageId' \in 1..Len(channel)]_vars

\* the cursor has moved twice, the second time over a batch it was found in
C19_Witness ==
  /\ lastStep = "cycle"
  /\ Len(lastDelta) = 2
  /\ lastProcessedMessageId = lastDelta[1]
  /\ lastDelta[2] > 1
  /\ lastDelta[2] - 1 \in Attempted

\* ---------------------------------------------------------------- C20
\* C20: whatever arm and re-arm requests have been made, at most one repeating
\* poll timer is active, and it is the one whose handle the program holds, so
\* that the next re-arm cancels it.
C20_SingleTimer ==
  /\ Cardinality(timers) <= 1
  /\ \A t \in timers : t.id = activeCheckInterval /\ t.id # NoTimer

\* the backoff has armed the timer and re-armed it before the startup arm
C20_Witness ==
  /\ phase = "starting"
  /\ consecutiveErrors = consecutiveErrorThreshold + 1
  /\ currentInterval = baseCheckInterval * backoffMultiplier * backoffMultiplier
  /\ Cardinality(timers) = 1

\* ---------------------------------------------------------------- C21
\* C21: in every reachable state the period of an armed poll timer lies
\* between currentInterval and currentInterval + intervalVariation, for the
\* current value of currentInterval: every change of the interval re-arms it.
C21_TimerFollowsInterval ==
  \A t \in timers :
    /\ currentInterval <= t.period
    /\ t.period <= currentInterval + intervalVariation

\* the interval has grown to its cap and come down one step, and the timer
\* carries the largest jitter on top of the new value
C21_Witness ==
  /\ phase = "running"
  /\ consecutiveErrors = 0
  /\ currentInterval = maxBackoffInterval \div backoffMultiplier
  /\ \E t \in timers : t.period = currentInterval + intervalVariation - 1

\* ---------------------------------------------------------------- C22
\* C22: every poll cycle ends with the busy flag cleared, whichever path it
\* takes (empty batch, nothing new, new messages, fetch error, exception
\* during triage), so the flag is set only while a cycle is in flight, and
\* once a cycle has ended the next timer fire starts a new one.
C22_ErrorContainment ==
  /\ fetches <= 1
  /\ isProcessing <=> fetches = 1
  /\ (phase = "running" /\ fetches = 0) =>
       ENABLED (IntervalFires /\ isProcessing' /\ fetches' = 1)

\* a cycle has thrown while triaging a message without content: the cursor
\* stays behind the batch and the flag is clear
C22_Witness ==
  /\ lastStep = "cycle"
  /\ lastDelta # <<>>
  /\ lastProcessedMessageId # lastDelta[1]
  /\ \E id \in Range(lastDelta) : delayThrows(channel[id])
  /\ ~isProcessing

\* ---------------------------------------------------------------- C23
\* the cursor record as a successful write of the cursor leaves it
RecordOf(cursor) == [kind |-> "record", lastMessageId |-> cursor]

\* a missing or unreadable record at startup is not fatal and leaves the
\* cursor absent
LoadIsNotFatal ==
  (persistent /\ phase = "starting" /\ logFile.kind # "record") =>
    /\ exitCode = 0
    /\ lastProcessedMessageId = NoId

\* C23 as stated: a missing, unreadable or corrupt record at startup is not
\* fatal and leaves the cursor absent, and every cycle of the persistence
\* variant that advances the cursor ends with the stored lastMessageId equal
\* to the cursor.
C23_RecordEqualsCursor ==
  /\ []LoadIsNotFatal
  /\ [][(persistent /\ lastProcessedMessageId' # lastProcessedMessageId
                    /\ SuccessStep) =>
          logFile' = RecordOf(lastProcessedMessageId')]_vars

\* C23 as the program behaves: the load is not fatal; a cycle that advances
\* the cursor attempts one write, which leaves the record equal to the new
\* cursor if it succeeds and leaves the old record or an unreadable file if
\* it fails (the failure is only logged); nothing else writes the file, and a
\* readable record never names a message newer than the cursor of the
\* running process.
C23_RecordFollowsCursor ==
  /\ []LoadIsNotFatal
  /\ []((persistent /\ phase # "exited" /\ logFile.kind = "record") =>
          logFile.lastMessageId <= lastProcessedMessageId)
  /\ []((~persistent) => logFile = NoFile)
  /\ [][/\ (persistent /\ lastProcessedMessageId' # lastProcessedMessageId
                       /\ SuccessStep) =>
             logFile' \in {RecordOf(lastProcessedMessageId'), logFile, CorruptFile}
        /\ logFile' # logFile => (persistent /\ SuccessStep)]_vars

\* restarted from a record, the process has advanced the cursor and failed
\* to write it: the record stays behind
C23_Witness ==
  /\ persistent
  /\ runs = 2
  /\ lastStep = "cycle"
  /\ lastDelta # <<>>
  /\ logFile.kind = "record"
  /\ loadedCursor = logFile.lastMessageId
  /\ logFile.lastMessageId < lastProcessedMessageId

====
